---- MODULE Spec2Model ----
(***************************************************************************)
(* Model of MyAIot/GirlDetect.                                             *)
(*                                                                         *)
(*  - scripts/prepare_yolo_dataset.py: the dataset preparer (scan, split,  *)
(*    copy, data.yaml), one run after another against one source and one   *)
(*    destination directory, a run possibly killed between two file        *)
(*    operations.                                                          *)
(*  - scripts/detect.py: detect_and_save / detect_and_annotate, one call   *)
(*    after another against one output directory.                          *)
(*                                                                         *)
(* Library calls are modelled by their documented effect: shutil.copy2     *)
(* (create or replace the destination file with the source's content),     *)
(* Path.mkdir(parents, exist_ok), random.seed/random.shuffle (a            *)
(* deterministic generator driving Python's Fisher-Yates loop),            *)
(* requests.get / raise_for_status / cv2.imdecode / cv2.imread / YOLO (a   *)
(* nondeterministic outcome each).  Floating point rounding of             *)
(* len * val is not modelled: --val is a rational num/den.                 *)
(***************************************************************************)
EXTENDS Integers, Sequences, FiniteSets, TLC

\* ------------------------------------------------------------------------
\* Bounds of the model
\* ------------------------------------------------------------------------

\* Most image files a source directory holds.
MaxImages == 3

\* Seeds range over DefaultSeed .. DefaultSeed + ExtraSeeds.
ExtraSeeds == 1

\* Most runs of the preparer (complete or killed) in one behaviour.
MaxRuns == 2

\* Most calls of detect_and_save in one behaviour.
MaxCalls == 2

\* ------------------------------------------------------------------------
\* Files and paths
\* ------------------------------------------------------------------------

None == "None"

F(stem, suffix) == [stem |-> stem, suffix |-> suffix]

\* Path.suffix.lower() on the suffixes that occur.
Lower(suffix) ==
    CASE suffix = ".JPG" -> ".jpg"
      [] suffix = ".PNG" -> ".png"
      [] suffix = ".JPEG" -> ".jpeg"
      [] OTHER -> suffix

\* Path.with_suffix
with_suffix(p, suffix) == F(p.stem, suffix)

ClassesTxt == F("classes", ".txt")

\* Every file name a source directory of the model may hold, in the order of
\* Python's comparison of the paths (code points, case-sensitive).
PathOrder ==
    << F("a", ".jpg"), F("a", ".png"), F("a", ".txt"), F("b", ".jpg"),
       F("b", ".txt"), F("c", ".JPG"), ClassesTxt, F("notes", ".md") >>

Range(s) == {s[i] : i \in 1..Len(s)}

AllFiles == Range(PathOrder)

PathIndex(p) == CHOOSE i \in 1..Len(PathOrder) : PathOrder[i] = p

PathLess(p, q) == PathIndex(p) < PathIndex(q)

\* exts of find_images
exts == {".jpg", ".jpeg", ".png"}

IsImage(p) == Lower(p.suffix) \in exts

\* All orders of the elements of S.
Perms(S) ==
    {s \in [1..Cardinality(S) -> S] :
        \A i, j \in 1..Cardinality(S) : i # j => s[i] # s[j]}

\* The files of S in path order.
RECURSIVE InPathOrder(_, _)
InPathOrder(S, i) ==
    IF i > Len(PathOrder) THEN << >>
    ELSE (IF PathOrder[i] \in S THEN << PathOrder[i] >> ELSE << >>)
         \o InPathOrder(S, i + 1)

\* Path.iterdir: the directory's entries in an arbitrary order.  The listings
\* enumerated are every order of the image files, followed by the other
\* entries.
iterdir(files) ==
    {io \o InPathOrder({p \in files : ~IsImage(p)}, 1) :
        io \in Perms({p \in files : IsImage(p)})}

\* Mutant of find_images: the extension filter is dropped.
find_images_unfiltered(listing) == listing

\* find_images: [p for p in src.iterdir() if p.suffix.lower() in exts]
find_images(listing) == SelectSeq(listing, IsImage)

\* ------------------------------------------------------------------------
\* classes.txt
\* ------------------------------------------------------------------------

IsSpace(c) == c \in {" ", "\t"}

\* str.strip on a line given as a sequence of characters.
RECURSIVE LStrip(_)
LStrip(l) ==
    IF l # << >> /\ IsSpace(Head(l)) THEN LStrip(Tail(l)) ELSE l

RECURSIVE RStrip(_)
RStrip(l) ==
    IF l # << >> /\ IsSpace(l[Len(l)]) THEN RStrip(SubSeq(l, 1, Len(l) - 1))
    ELSE l

strip(l) == RStrip(LStrip(l))

\* [l.strip() for l in lines if l.strip()]
RECURSIVE StripLines(_)
StripLines(lines) ==
    IF lines = << >> THEN << >>
    ELSE (IF strip(Head(lines)) # << >> THEN << strip(Head(lines)) >>
          ELSE << >>) \o StripLines(Tail(lines))

\* Mutant of read_classes: a missing classes.txt reads as an empty one.
read_classes_no_none(files, text) ==
    IF ClassesTxt \notin files THEN << >> ELSE StripLines(text)

\* read_classes: None when classes.txt does not exist, else its stripped,
\* non-blank lines.
read_classes(files, text) ==
    IF ClassesTxt \notin files THEN None ELSE StripLines(text)

\* The contents of classes.txt the model draws from (when the file exists).
ClassFileTexts ==
    { << >>,
      << <<"g", "i", "r", "l">>, << >>, <<" ", "b", "o", "y", " ">>, <<" ">> >> }

\* ------------------------------------------------------------------------
\* The split
\* ------------------------------------------------------------------------

\* sorted(imgs): insertion into path order.
RECURSIVE Insert(_, _)
Insert(p, s) ==
    IF s = << >> THEN << p >>
    ELSE IF PathLess(p, Head(s)) THEN << p >> \o s
    ELSE << Head(s) >> \o Insert(p, Tail(s))

RECURSIVE sorted(_)
sorted(s) == IF s = << >> THEN << >> ELSE Insert(Head(s), sorted(Tail(s)))

\* random.seed(seed): the generator's state is a function of the seed alone.
random_seed(seed) == seed % 31

\* One step of the generator.
NextRand(g) == (7 * g + 5) % 31

Swap(x, i, j) ==
    [k \in 1..Len(x) |-> IF k = i THEN x[j] ELSE IF k = j THEN x[i] ELSE x[k]]

\* random.shuffle: for i in reversed(range(1, len(x))):
\*                     j = randbelow(i + 1); x[i], x[j] = x[j], x[i]
\* (i is 1-based here: positions i = Len(x) down to 2, j in 1..i).
RECURSIVE ShuffleFrom(_, _, _)
ShuffleFrom(x, i, g) ==
    IF i < 2 THEN x
    ELSE ShuffleFrom(Swap(x, i, 1 + (NextRand(g) % i)), i - 1, NextRand(g))

random_shuffle(x, seed) == ShuffleFrom(x, Len(x), random_seed(seed))

\* Mutant of SortForSplit: the scan's order is shuffled as it is.
SortForSplitUnsorted(imgs) == imgs

\* The list main shuffles: imgs_sorted = sorted(imgs).
SortForSplit(imgs) == sorted(imgs)

\* int(x) of the rational num/den (den > 0): truncation towards zero.
Trunc(num, den) == IF num >= 0 THEN num \div den ELSE -((-num) \div den)

\* Mutant of NVal: the clamp to 1 is dropped.
NValNoClamp(n, val) ==
    IF Trunc(n * val[1], val[2]) > 0 THEN Trunc(n * val[1], val[2]) ELSE 0

\* n_val = max(1, int(len(imgs_sorted) * args.val)), val = <<num, den>>
NVal(n, val) ==
    IF Trunc(n * val[1], val[2]) > 1 THEN Trunc(n * val[1], val[2]) ELSE 1

\* s[:k] for k >= 0
Take(s, k) == SubSeq(s, 1, IF k < Len(s) THEN k ELSE Len(s))

\* Mutant of Drop: the train slice is the whole list.
DropNothing(s, k) == s

\* s[k:] for k >= 0
Drop(s, k) == SubSeq(s, k + 1, Len(s))

\* Lines 96-100 of main: the shuffled list and its two slices.
Split(imgs, seed, val) ==
    LET shuffled == random_shuffle(SortForSplit(imgs), seed)
        n == NVal(Len(shuffled), val)
    IN  [imgs_sorted |-> shuffled,
         n_val |-> n,
         val_imgs |-> Take(shuffled, n),
         train_imgs |-> Drop(shuffled, n)]

\* ------------------------------------------------------------------------
\* Inputs
\* ------------------------------------------------------------------------

\* --seed default (argparse)
DefaultSeed == 42

Seeds == DefaultSeed .. (DefaultSeed + ExtraSeeds)

\* --val default 0.2, as num/den
DefaultVal == << 1, 5 >>

\* Values of --val (any float is accepted): negative, the default, 2/3, 1
\* and 3/2.
ValFractions == { << -1, 2 >>, DefaultVal, << 2, 3 >>, << 1, 1 >>, << 3, 2 >> }

\* Source directories: at most MaxImages image files, any of the label
\* files, notes.md, and classes.txt or not.
SourceDirs ==
    {imgs \cup lbls \cup cls \cup {F("notes", ".md")} :
        imgs \in {S \in SUBSET {p \in AllFiles : IsImage(p)} :
                     Cardinality(S) <= MaxImages},
        lbls \in SUBSET {F("a", ".txt"), F("b", ".txt")},
        cls \in {{}, {ClassesTxt}}}

\* ------------------------------------------------------------------------
\* The destination tree
\* ------------------------------------------------------------------------

ImagesTrain == "images/train"
ImagesVal == "images/val"
LabelsTrain == "labels/train"
LabelsVal == "labels/val"

\* prepare_dirs creates the four directories in this order.
prepare_dirs == << ImagesTrain, ImagesVal, LabelsTrain, LabelsVal >>

EmptyDest == [dirs |-> {}, files |-> {}, yaml |-> None]

\* A destination left behind by a run against another source.
StaleDest ==
    [dirs |-> Range(prepare_dirs),
     files |-> {[dir |-> ImagesVal, name |-> F("a", ".jpg"), content |-> "old"],
                [dir |-> ImagesTrain, name |-> F("old", ".jpg"), content |-> "old"]},
     yaml |-> [train |-> ImagesTrain, val |-> ImagesVal, nc |-> 1,
               names |-> << <<"o", "l", "d">> >>]]

\* shutil.copy2(src, dst_dir / src.name): the destination file is created or
\* replaced and holds the bytes of the source file.
copy2(files, p, dir) ==
    {f \in files : ~(f.dir = dir /\ f.name = p)}
        \cup {[dir |-> dir, name |-> p, content |-> p]}

\* What a copy2 that is killed before it has written the whole file leaves:
\* the destination file is created or replaced and holds part of the bytes.
truncated(files, p, dir) ==
    {f \in files : ~(f.dir = dir /\ f.name = p)}
        \cup {[dir |-> dir, name |-> p, content |-> "truncated"]}

\* write_data_yaml
write_data_yaml(nc, names) ==
    [train |-> ImagesTrain, val |-> ImagesVal, nc |-> nc, names |-> names]

\* ------------------------------------------------------------------------
\* State
\* ------------------------------------------------------------------------

VARIABLES
    src,            \* the source directory: [files, classes_txt]
    dest,           \* the destination tree: [dirs, files, yaml]
    pc,             \* where main is: idle, prepare_dirs, split, copy_pairs,
                    \* write_data_yaml, done, killed
    args,           \* [seed, val] of the current (or last) run
    imgs,           \* main: imgs
    classes,        \* main: classes
    mk,             \* prepare_dirs: mkdir calls done
    imgs_sorted,    \* main: imgs_sorted (after the shuffle)
    n_val,          \* main: n_val
    val_imgs,       \* main: val_imgs
    train_imgs,     \* main: train_imgs
    frame,          \* copy_pairs' locals: [call, pairs, i, at, copied, missing_labels]
    copied_train, missing_train, copied_val, missing_val,
    stdout,         \* what the run printed
    copies,         \* the copy2 calls of the run: << <<dir, name>>, ... >>
    hist            \* history: [runs, sameArgs, noKill, dest0, first]

pvars == << src, dest, pc, args, imgs, classes, mk, imgs_sorted, n_val,
            val_imgs, train_imgs, frame, copied_train, missing_train,
            copied_val, missing_val, stdout, copies, hist >>

\* State of scripts/detect.py.
VARIABLES
    fs,             \* the image files written so far (by any call)
    dpc,            \* where detect_and_save is: idle, load_model, load_image,
                    \* predict, imwrite, summary, returned, raised
    image_path,     \* detect_and_save: image_path
    output_path,    \* detect_and_save: output_path
    image,          \* detect_and_annotate: img
    annotated_img,  \* detect_and_save: annotated_img
    exc,            \* the exception the call raised
    fetched,        \* the outcome of the call's fetch (None: no fetch made)
    written,        \* the cv2.imwrite calls of the call
    ncalls          \* calls made so far

dvars == << fs, dpc, image_path, output_path, image, annotated_img, exc,
            fetched, written, ncalls >>

vars == << pvars, dvars >>

NoFrame == [call |-> None, pairs |-> << >>, i |-> 0, at |-> None,
            copied |-> 0, missing_labels |-> << >>]

NoArgs == [seed |-> DefaultSeed, val |-> DefaultVal]

\* The locals of a process that has not reached them (or is gone).
LocalsUnset ==
    /\ imgs' = << >>
    /\ classes' = None
    /\ mk' = 0
    /\ imgs_sorted' = << >>
    /\ n_val' = 0
    /\ val_imgs' = << >>
    /\ train_imgs' = << >>
    /\ frame' = NoFrame
    /\ copied_train' = 0
    /\ missing_train' = << >>
    /\ copied_val' = 0
    /\ missing_val' = << >>

PrepInit ==
    /\ \E files \in SourceDirs, text \in ClassFileTexts :
          /\ (ClassesTxt \notin files => text = << >>)
          /\ src = [files |-> files, classes_txt |-> text]
    /\ dest \in {EmptyDest, StaleDest}
    /\ pc = "idle"
    /\ args = NoArgs
    /\ imgs = << >>
    /\ classes = None
    /\ mk = 0
    /\ imgs_sorted = << >>
    /\ n_val = 0
    /\ val_imgs = << >>
    /\ train_imgs = << >>
    /\ frame = NoFrame
    /\ copied_train = 0
    /\ missing_train = << >>
    /\ copied_val = 0
    /\ missing_val = << >>
    /\ stdout = << >>
    /\ copies = << >>
    /\ hist = [runs |-> 0, sameArgs |-> TRUE, noKill |-> TRUE, dest0 |-> dest,
               first |-> None]

\* ------------------------------------------------------------------------
\* main
\* ------------------------------------------------------------------------

\* History kept for the properties of several runs:
\*   runs      runs started so far;
\*   sameArgs  every run so far was given the same --seed and --val;
\*   noKill    no run so far was killed;
\*   dest0     the destination before the first run;
\*   first     << train_imgs, val_imgs, imgs >> of the first completed run,
\*             while sameArgs holds (None before, and once the arguments
\*             changed).
HistAtStart(new_args) ==
    LET same == hist.sameArgs /\ (hist.runs = 0 \/ new_args = args)
    IN  [hist EXCEPT
           !.runs = @ + 1,
           !.sameArgs = same,
           !.first = IF ~same THEN None
                     ELSE IF @ = None /\ pc = "done" /\ imgs # << >>
                          THEN << train_imgs, val_imgs, imgs >>
                     ELSE @]

\* Lines 69-92: parse the arguments, seed the generator, scan the source,
\* return when there is no image, read classes.txt.
Start(seed, val, listing) ==
    /\ UNCHANGED dvars
    /\ pc \in {"idle", "done", "killed"}
    /\ args' = [seed |-> seed, val |-> val]
    /\ hist' = HistAtStart(args')
    /\ copies' = << >>
    /\ dest' = dest
    /\ src' = src
    /\ IF find_images(listing) = << >>
       THEN /\ stdout' = << [line |-> "No images found in"] >>
            /\ pc' = "done"
            /\ LocalsUnset
       ELSE /\ LET cls == read_classes(src.files, src.classes_txt)
               IN  /\ classes' = IF cls = None THEN << >> ELSE cls
                   /\ stdout' = IF cls = None
                                THEN << [line |-> "Warning: classes.txt not found in source."] >>
                                ELSE << >>
            /\ imgs' = find_images(listing)
            /\ pc' = "prepare_dirs"
            /\ mk' = 0
            /\ imgs_sorted' = << >>
            /\ n_val' = 0
            /\ val_imgs' = << >>
            /\ train_imgs' = << >>
            /\ frame' = NoFrame
            /\ copied_train' = 0
            /\ missing_train' = << >>
            /\ copied_val' = 0
            /\ missing_val' = << >>

\* Lines 37-41: one mkdir(parents=True, exist_ok=True) of prepare_dirs.
MkDir ==
    /\ UNCHANGED dvars
    /\ pc = "prepare_dirs"
    /\ dest' = [dest EXCEPT !.dirs = @ \cup {prepare_dirs[mk + 1]}]
    /\ mk' = mk + 1
    /\ pc' = IF mk + 1 = Len(prepare_dirs) THEN "split" ELSE "prepare_dirs"
    /\ UNCHANGED << src, args, imgs, classes, imgs_sorted, n_val, val_imgs,
                    train_imgs, frame, copied_train, missing_train,
                    copied_val, missing_val, stdout, copies, hist >>

\* The frame of a call of copy_pairs.
Call(which, pairs) ==
    [call |-> which, pairs |-> pairs, i |-> 1, at |-> "image", copied |-> 0,
     missing_labels |-> << >>]

\* Lines 96-102: sort, shuffle, slice, and call copy_pairs on train_imgs.
SplitStep ==
    /\ UNCHANGED dvars
    /\ pc = "split"
    /\ LET s == Split(imgs, args.seed, args.val)
       IN  /\ imgs_sorted' = s.imgs_sorted
           /\ n_val' = s.n_val
           /\ val_imgs' = s.val_imgs
           /\ train_imgs' = s.train_imgs
           /\ frame' = Call("train", s.train_imgs)
    /\ pc' = "copy_pairs"
    /\ UNCHANGED << src, dest, args, imgs, classes, mk, copied_train,
                    missing_train, copied_val, missing_val, stdout, copies,
                    hist >>

\* Mutant of images_dst: both calls are given dest/images/train.
images_dst_train(which) == ImagesTrain

\* The images_dst and labels_dst arguments of the two calls of copy_pairs.
images_dst(which) == IF which = "train" THEN ImagesTrain ELSE ImagesVal
labels_dst(which) == IF which = "train" THEN LabelsTrain ELSE LabelsVal

\* Lines 47-50: the next image of the loop is copied.
CopyImage ==
    /\ UNCHANGED dvars
    /\ pc = "copy_pairs"
    /\ frame.i <= Len(frame.pairs)
    /\ frame.at = "image"
    /\ LET img == frame.pairs[frame.i]
       IN  /\ images_dst(frame.call) \in dest.dirs
           /\ dest' = [dest EXCEPT
                         !.files = copy2(@, img, images_dst(frame.call))]
           /\ copies' = Append(copies, << images_dst(frame.call), img >>)
    /\ frame' = [frame EXCEPT !.at = "label"]
    /\ UNCHANGED << src, pc, args, imgs, classes, mk, imgs_sorted, n_val,
                    val_imgs, train_imgs, copied_train, missing_train,
                    copied_val, missing_val, stdout, hist >>

\* Mutant of RecordMissing: the name is not recorded.
RecordMissingDropped(missing_labels, p) == missing_labels

\* Lines 54-55: missing_labels after an image whose label does not exist.
RecordMissing(missing_labels, p) == Append(missing_labels, p)

\* Lines 51-56: its label is copied when it exists, else the image's name is
\* appended to missing_labels; copied += 1.
CopyLabel ==
    /\ UNCHANGED dvars
    /\ pc = "copy_pairs"
    /\ frame.i <= Len(frame.pairs)
    /\ frame.at = "label"
    /\ LET img == frame.pairs[frame.i]
           txt == with_suffix(img, ".txt")
       IN  IF txt \in src.files
           THEN /\ labels_dst(frame.call) \in dest.dirs
                /\ dest' = [dest EXCEPT
                              !.files = copy2(@, txt, labels_dst(frame.call))]
                /\ copies' = Append(copies, << labels_dst(frame.call), txt >>)
                /\ frame' = [frame EXCEPT !.at = "image", !.i = @ + 1,
                                          !.copied = @ + 1]
           ELSE /\ dest' = dest
                /\ copies' = copies
                /\ frame' = [frame EXCEPT
                               !.at = "image", !.i = @ + 1, !.copied = @ + 1,
                               !.missing_labels = RecordMissing(@, img)]
    /\ UNCHANGED << src, pc, args, imgs, classes, mk, imgs_sorted, n_val,
                    val_imgs, train_imgs, copied_train, missing_train,
                    copied_val, missing_val, stdout, hist >>

\* Line 57 and lines 102-103: copy_pairs returns (copied, missing_labels);
\* after the train call comes the val call, after the val call the manifest.
CopyPairsReturn ==
    /\ UNCHANGED dvars
    /\ pc = "copy_pairs"
    /\ frame.i > Len(frame.pairs)
    /\ IF frame.call = "train"
       THEN /\ copied_train' = frame.copied
            /\ missing_train' = frame.missing_labels
            /\ frame' = Call("val", val_imgs)
            /\ pc' = "copy_pairs"
            /\ UNCHANGED << copied_val, missing_val >>
       ELSE /\ copied_val' = frame.copied
            /\ missing_val' = frame.missing_labels
            /\ frame' = NoFrame
            /\ pc' = "write_data_yaml"
            /\ UNCHANGED << copied_train, missing_train >>
    /\ UNCHANGED << src, dest, args, imgs, classes, mk, imgs_sorted, n_val,
                    val_imgs, train_imgs, stdout, copies, hist >>

\* The lines printed for the names of m.
RECURSIVE MissingLines(_)
MissingLines(m) ==
    IF m = << >> THEN << >>
    ELSE << [line |-> " -", name |-> Head(m)] >> \o MissingLines(Tail(m))

\* Lines 105-116: data.yaml is written, the summary and the missing-labels
\* report are printed.
WriteYaml ==
    /\ UNCHANGED dvars
    /\ pc = "write_data_yaml"
    /\ dest' = [dest EXCEPT !.yaml = write_data_yaml(Len(classes), classes)]
    /\ stdout' = stdout
          \o << [line |-> "Summary", total |-> Len(imgs_sorted),
                 train |-> copied_train, train_missing |-> Len(missing_train),
                 val |-> copied_val, val_missing |-> Len(missing_val)] >>
          \o (IF missing_train # << >> \/ missing_val # << >>
              THEN << [line |-> "Images missing label files:"] >>
                   \o MissingLines(missing_train \o missing_val)
              ELSE << >>)
          \o << [line |-> "Wrote"], [line |-> "Done."] >>
    /\ pc' = "done"
    /\ UNCHANGED << src, args, imgs, classes, mk, imgs_sorted, n_val, val_imgs,
                    train_imgs, frame, copied_train, missing_train, copied_val,
                    missing_val, copies, hist >>

\* The process is killed between two file operations: its memory is gone, the
\* destination stays as it is.  (The history keeps the arguments of the
\* killed run while every run so far was given the same ones.)
Kill ==
    /\ UNCHANGED dvars
    /\ pc \in {"prepare_dirs", "split", "copy_pairs", "write_data_yaml"}
    /\ pc' = "killed"
    /\ LocalsUnset
    /\ hist' = [hist EXCEPT !.noKill = FALSE]
    /\ args' = IF hist.sameArgs THEN args ELSE NoArgs
    /\ stdout' = << >>
    /\ copies' = << >>
    /\ UNCHANGED << src, dest >>

\* ------------------------------------------------------------------------
\* scripts/detect.py
\* ------------------------------------------------------------------------

\* A path or URL string: its scheme prefix ("" for a local path), parent,
\* stem and suffix.
P(scheme, parent, stem, suffix) ==
    [scheme |-> scheme, parent |-> parent, stem |-> stem, suffix |-> suffix]

\* Values of --image.
ImageArgs ==
    { P("https://", "example.com", << "cat" >>, ".jpg"),
      P("http://", "example.com", << "dog" >>, ".png"),
      P("ftp://", "example.com", << "cat" >>, ".jpg"),
      P("", "pics", << "cat" >>, ".jpg") }

\* output_path=None: --output is not given.
NoOutput == P("", "", << >>, "")

\* Values of --output.
OutputArgs == { NoOutput, P("", ".", << "out" >>, ".jpg") }

\* is_url
is_url(path) == path.scheme \in {"http://", "https://"}

\* Lines 85-90 of detect_and_save: the default output path.
DefaultOutput(source) ==
    IF is_url(source) THEN P("", ".", << "url_detected" >>, ".jpg")
    ELSE P("", source.parent, source.stem \o << "_detected" >>,
           source.suffix)

\* What a fetch can meet: a decodable image, an unreachable host or timeout
\* (requests.get raises), a non-2xx status (raise_for_status raises), an
\* empty body (cv2.imdecode raises), bytes that are no image (cv2.imdecode
\* returns None).
FetchOutcomes == {"image", "unreachable", "status", "empty", "garbage"}

\* load_image_from_url: the image it returns, or the exception it raises.
load_image_from_url(outcome) ==
    CASE outcome = "unreachable" ->
            [raises |-> "requests.ConnectionError", img |-> None]
      [] outcome = "status" -> [raises |-> "requests.HTTPError", img |-> None]
      [] outcome = "empty" -> [raises |-> "cv2.error", img |-> None]
      [] outcome = "garbage" -> [raises |-> None, img |-> None]
      [] OTHER -> [raises |-> None, img |-> "img"]

\* Mutant of LoadImage: the "img is None" checks are dropped.
LoadImageUnchecked(source, outcome, readable) ==
    IF is_url(source)
    THEN LET r == load_image_from_url(outcome)
         IN  IF r.raises # None THEN r ELSE [raises |-> None, img |-> "img"]
    ELSE [raises |-> None, img |-> "img"]

\* Lines 52-59 of detect_and_annotate: the image, or the exception raised.
\* `outcome` is the fetch's outcome (URL) and `readable` whether cv2.imread
\* decodes the local file.
LoadImage(source, outcome, readable) ==
    IF is_url(source)
    THEN LET r == load_image_from_url(outcome)
         IN  IF r.raises # None THEN r
             ELSE IF r.img = None
                  THEN [raises |-> "ValueError: Cannot download image from URL",
                        img |-> None]
             ELSE r
    ELSE IF readable THEN [raises |-> None, img |-> "img"]
         ELSE [raises |-> "ValueError: Cannot read image", img |-> None]

\* The spec's DownloadError: what a failed load of a URL source raises.
DownloadError ==
    {"requests.ConnectionError", "requests.HTTPError", "cv2.error",
     "ValueError: Cannot download image from URL"}

DetectIdle ==
    /\ fs = {}
    /\ dpc = "idle"
    /\ image_path = NoOutput
    /\ output_path = NoOutput
    /\ image = None
    /\ annotated_img = None
    /\ exc = None
    /\ fetched = None
    /\ written = << >>
    /\ ncalls = 0

\* Lines 84-93: the output path is settled and detect_and_annotate called.
DetectAndSave(source, output) ==
    /\ UNCHANGED pvars
    /\ dpc \in {"idle", "returned", "raised"}
    /\ ncalls < MaxCalls
    /\ ncalls' = ncalls + 1
    /\ image_path' = source
    /\ output_path' = IF output = NoOutput THEN DefaultOutput(source) ELSE output
    /\ image' = None
    /\ annotated_img' = None
    /\ exc' = None
    /\ fetched' = None
    /\ written' = << >>
    /\ dpc' = "load_model"
    /\ fs' = fs

Raise(e) ==
    /\ exc' = e
    /\ dpc' = "raised"

\* Line 49: model = YOLO(model_path), which raises on a bad weights file.
LoadModel ==
    /\ UNCHANGED pvars
    /\ dpc = "load_model"
    /\ \/ dpc' = "load_image" /\ exc' = exc
       \/ Raise("YOLO: cannot load weights")
    /\ UNCHANGED << fs, image_path, output_path, image, annotated_img, fetched,
                    written, ncalls >>

\* Lines 52-59: the image is fetched or read.
LoadImageStep ==
    /\ UNCHANGED pvars
    /\ dpc = "load_image"
    /\ \E outcome \in FetchOutcomes, readable \in BOOLEAN :
          /\ is_url(image_path) => readable
          /\ ~is_url(image_path) => outcome = "image"
          /\ fetched' = IF is_url(image_path) THEN outcome ELSE None
          /\ LET r == LoadImage(image_path, outcome, readable)
             IN  IF r.raises # None
                 THEN Raise(r.raises) /\ image' = image
                 ELSE /\ image' = r.img
                      /\ dpc' = "predict"
                      /\ exc' = exc
    /\ UNCHANGED << fs, image_path, output_path, annotated_img, written,
                    ncalls >>

\* Lines 62-67: inference and results[0].plot(), either of which may raise.
Predict ==
    /\ UNCHANGED pvars
    /\ dpc = "predict"
    /\ \/ /\ annotated_img' = << "annotated", image >>
          /\ dpc' = "imwrite"
          /\ exc' = exc
       \/ Raise("predict/plot error") /\ annotated_img' = annotated_img
    /\ UNCHANGED << fs, image_path, output_path, image, fetched, written,
                    ncalls >>

\* Line 96: cv2.imwrite(str(output_path), annotated_img)
ImWrite ==
    /\ UNCHANGED pvars
    /\ dpc = "imwrite"
    /\ fs' = fs \cup {output_path}
    /\ written' = Append(written, output_path)
    /\ dpc' = "summary"
    /\ UNCHANGED << image_path, output_path, image, annotated_img, exc, fetched,
                    ncalls >>

\* Lines 98-110: the summary is printed and (output_path, results) returned.
Return ==
    /\ UNCHANGED pvars
    /\ dpc = "summary"
    /\ dpc' = "returned"
    /\ UNCHANGED << fs, image_path, output_path, image, annotated_img, exc,
                    fetched, written, ncalls >>

DetectNext ==
    \/ \E source \in ImageArgs, output \in OutputArgs :
          DetectAndSave(source, output)
    \/ LoadModel
    \/ LoadImageStep
    \/ Predict
    \/ ImWrite
    \/ Return

\* ------------------------------------------------------------------------
\* Specifications
\* ------------------------------------------------------------------------

\* The process is killed inside a file operation: the file it was writing (an
\* image, a label, data.yaml) is left truncated.
KillInWrite ==
    /\ UNCHANGED dvars
    /\ \/ /\ pc = "copy_pairs"
          /\ frame.i <= Len(frame.pairs)
          /\ LET p == frame.pairs[frame.i]
                 txt == with_suffix(p, ".txt")
             IN  IF frame.at = "image"
                 THEN dest' = [dest EXCEPT
                                 !.files = truncated(@, p, images_dst(frame.call))]
                 ELSE /\ txt \in src.files
                      /\ dest' = [dest EXCEPT
                                     !.files = truncated(@, txt, labels_dst(frame.call))]
       \/ /\ pc = "write_data_yaml"
          /\ dest' = [dest EXCEPT !.yaml = "truncated"]
    /\ pc' = "killed"
    /\ LocalsUnset
    /\ hist' = [hist EXCEPT !.noKill = FALSE]
    /\ args' = IF hist.sameArgs THEN args ELSE NoArgs
    /\ stdout' = << >>
    /\ copies' = << >>
    /\ src' = src

\* One run against any source and either destination, with any arguments.
Next ==
    \/ /\ hist.runs = 0
       /\ \E seed \in Seeds, val \in ValFractions, listing \in iterdir(src.files) :
             Start(seed, val, listing)
    \/ MkDir
    \/ SplitStep
    \/ CopyImage
    \/ CopyLabel
    \/ CopyPairsReturn
    \/ WriteYaml
    \/ Kill
    \/ KillInWrite

Init == PrepInit /\ DetectIdle

Spec == Init /\ [][Next]_vars

\* Up to MaxRuns runs, one after the other, against one source of at least
\* two images (a.txt the only label, classes.txt present) and a destination
\* that starts empty.
RerunVals == { DefaultVal, << 2, 3 >> }

RerunInit ==
    /\ PrepInit
    /\ DetectIdle
    /\ dest = EmptyDest
    /\ ClassesTxt \in src.files
    /\ src.classes_txt # << >>
    /\ F("a", ".txt") \in src.files
    /\ F("b", ".txt") \notin src.files
    /\ Cardinality({p \in src.files : IsImage(p)}) >= 2

RerunNext ==
    \/ /\ hist.runs < MaxRuns
       /\ \E seed \in Seeds, val \in RerunVals, listing \in iterdir(src.files) :
             Start(seed, val, listing)
    \/ MkDir
    \/ SplitStep
    \/ CopyImage
    \/ CopyLabel
    \/ CopyPairsReturn
    \/ WriteYaml
    \/ Kill
    \/ KillInWrite

RerunSpec == RerunInit /\ [][RerunNext]_vars

\* Calls of detect_and_save, one after the other; the preparer is not run.
DetectInit ==
    /\ PrepInit
    /\ src.files = {F("notes", ".md")}
    /\ dest = EmptyDest
    /\ DetectIdle

DetectSpec == DetectInit /\ [][DetectNext]_vars

\* ------------------------------------------------------------------------
\* Properties
\* ------------------------------------------------------------------------

\* A run that found images has completed.
Done == pc = "done" /\ imgs # << >>

SrcImages == {p \in src.files : IsImage(p)}

\* The names of the files of a destination directory.
DestNames(dir) == {f.name : f \in {g \in dest.files : g.dir = dir}}

\* How many copy2 calls of the run wrote the path e = <<dir, name>>.
Writes(e) == Cardinality({i \in 1..Len(copies) : copies[i] = e})

\* How many copy2 calls of the run wrote into the directory dir.
CopiedInto(dir) == Cardinality({i \in 1..Len(copies) : copies[i][1] = dir})

\* How often p occurs in the sequence m.
Occurrences(p, m) == Cardinality({i \in 1..Len(m) : m[i] = p})

Max(a, b) == IF a >= b THEN a ELSE b
Min(a, b) == IF a <= b THEN a ELSE b

\* floor(n * val) for val = <<num, den>>, den > 0
FloorOf(n, val) == (n * val[1]) \div val[2]

\* The destination one uninterrupted run on an empty destination produces
\* from the source directory `files` (classes.txt holding `text`).
UninterruptedRun(files, text, seed, val) ==
    LET s == Split(find_images(InPathOrder(files, 1)), seed, val)
        cls == read_classes(files, text)
        names == IF cls = None THEN << >> ELSE cls
        Copied(pairs, idir, ldir) ==
            {[dir |-> idir, name |-> p, content |-> p] : p \in Range(pairs)}
            \cup {[dir |-> ldir, name |-> with_suffix(p, ".txt"),
                   content |-> with_suffix(p, ".txt")] :
                     p \in {q \in Range(pairs) : with_suffix(q, ".txt") \in files}}
    IN  [dirs |-> {ImagesTrain, ImagesVal, LabelsTrain, LabelsVal},
         files |-> Copied(s.train_imgs, ImagesTrain, LabelsTrain)
                     \cup Copied(s.val_imgs, ImagesVal, LabelsVal),
         yaml |-> [train |-> ImagesTrain, val |-> ImagesVal,
                   nc |-> Len(names), names |-> names]]

C2_SameSeedSameSplit ==
    (Done /\ hist.sameArgs /\ hist.first # None) =>
        /\ train_imgs = hist.first[1]
        /\ val_imgs = hist.first[2]

\* Two complete runs with the same arguments whose scans came in different
\* orders.
C2_Witness ==
    /\ Done
    /\ hist.sameArgs
    /\ hist.first # None
    /\ hist.first[3] # imgs
    /\ train_imgs = hist.first[1]
    /\ val_imgs = hist.first[2]

\* The copy the loop of copy_pairs is about to make can be made: its
\* destination directory exists.
CanCopy ==
    (pc = "copy_pairs" /\ frame.i <= Len(frame.pairs)) =>
        IF frame.at = "image" THEN images_dst(frame.call) \in dest.dirs
        ELSE with_suffix(frame.pairs[frame.i], ".txt") \in src.files
                => labels_dst(frame.call) \in dest.dirs

\* C3: a complete run has copied every source image into images/train or
\* images/val, with or without a label; an image without a label is named
\* exactly once in missing_train + missing_val and in the printed report, an
\* image with a label never; and no copy of a run under way fails, label or
\* no label.
C3_MissingLabelsReported ==
    /\ Done =>
          \A p \in SrcImages :
             LET expected == IF with_suffix(p, ".txt") \in src.files THEN 0 ELSE 1
             IN  /\ p \in DestNames(ImagesTrain) \cup DestNames(ImagesVal)
                 /\ Occurrences(p, missing_train \o missing_val) = expected
                 /\ Cardinality({i \in 1..Len(stdout) :
                                   /\ stdout[i].line = " -"
                                   /\ stdout[i].name = p}) = expected
    /\ CanCopy

\* A complete run over a source with a labelled and an unlabelled image.
C3_Witness ==
    /\ Done
    /\ \E p, q \in SrcImages :
          /\ with_suffix(p, ".txt") \notin src.files
          /\ with_suffix(q, ".txt") \in src.files
          /\ Occurrences(p, missing_train \o missing_val) = 1
          /\ Occurrences(q, missing_train \o missing_val) = 0

\* C4: a run over a source without image files reports it and is over, and
\* the destination is what it was before the run: no directory created, no
\* file copied, data.yaml neither written nor replaced.
C4_EmptySourceNoMutation ==
    (hist.runs > 0 /\ SrcImages = {}) =>
        /\ pc = "done"
        /\ dest = hist.dest0
        /\ copies = << >>
        /\ Len(stdout) = 1
        /\ stdout[1].line = "No images found in"

\* The run over an empty source, against a destination that held files.
C4_Witness ==
    /\ hist.runs > 0
    /\ SrcImages = {}
    /\ pc = "done"
    /\ dest = StaleDest

\* C5: on a destination that started empty, a complete run that follows runs
\* given the same seed and val fraction, complete or killed at any point
\* (between two file operations or inside one), leaves the destination one
\* uninterrupted run leaves.
C5_RerunRecovers ==
    (Done /\ hist.sameArgs /\ hist.dest0 = EmptyDest) =>
        dest = UninterruptedRun(src.files, src.classes_txt, args.seed, args.val)

\* A complete run after a run with the same arguments that was killed.
C5_Witness ==
    /\ Done
    /\ hist.sameArgs
    /\ hist.runs >= 2
    /\ ~hist.noKill
    /\ dest = UninterruptedRun(src.files, src.classes_txt, args.seed, args.val)

\* C6: a complete run over a source without classes.txt has printed the
\* warning, has the four directories, has copied the images and labels it
\* copies when classes.txt exists, and has written nc 0 and names [];
\* the nc any complete run writes is the length of the names it writes.
C6_NoClassesFile ==
    /\ (Done /\ ClassesTxt \notin src.files) =>
          /\ \E i \in 1..Len(stdout) :
                stdout[i].line = "Warning: classes.txt not found in source."
          /\ dest.yaml.nc = 0
          /\ dest.yaml.names = << >>
          /\ {ImagesTrain, ImagesVal, LabelsTrain, LabelsVal} \subseteq dest.dirs
          /\ hist.dest0 = EmptyDest =>
                LET with == UninterruptedRun(src.files \cup {ClassesTxt},
                                             << <<"g">> >>, args.seed, args.val)
                IN  dest.dirs = with.dirs /\ dest.files = with.files
    /\ Done => dest.yaml.nc = Len(dest.yaml.names)

\* A complete run without classes.txt that copied a label.
C6_Witness ==
    /\ Done
    /\ ClassesTxt \notin src.files
    /\ hist.dest0 = EmptyDest
    /\ dest.yaml.nc = 0
    /\ \E f \in dest.files : f.dir \in {LabelsTrain, LabelsVal}

\* C7: a call on a URL whose fetch failed has raised one of the download
\* errors and has written no file; a call has written a file only after the
\* load, the inference and the annotation succeeded.
C7_FailedFetchWritesNothing ==
    /\ (is_url(image_path) /\ fetched \in FetchOutcomes \ {"image"}) =>
          /\ dpc = "raised"
          /\ exc \in DownloadError
          /\ written = << >>
    /\ written # << >> =>
          /\ image = "img"
          /\ annotated_img = << "annotated", "img" >>
          /\ exc = None
          /\ written = << output_path >>

\* A call on a URL with an unreachable host, after a call that wrote a file.
C7_Witness ==
    /\ is_url(image_path)
    /\ fetched = "unreachable"
    /\ dpc = "raised"
    /\ written = << >>
    /\ fs # {}

\* C8 (as claimed): no path of the destination is written by two copies of
\* one run.
C8_AsClaimed ==
    \A i, j \in 1..Len(copies) : i # j => copies[i] # copies[j]

\* The images of the list the call `which` of copy_pairs was given.
PairsOf(which) == IF which = "train" THEN Range(train_imgs) ELSE Range(val_imgs)

\* C8 (amended): in a run, a path under images/train (images/val) is written
\* by one copy, of an image of the train (val) list; a path under
\* labels/train (labels/val) is written at most once for each image of that
\* list with its base name, and in a complete run once for each.
C8_WritesPerPath ==
    \A i \in 1..Len(copies) :
       LET e == copies[i]
           which == IF e[1] \in {ImagesTrain, LabelsTrain} THEN "train" ELSE "val"
           sharing == {p \in PairsOf(which) : with_suffix(p, ".txt") = e[2]}
       IN  IF e[1] \in {ImagesTrain, ImagesVal}
           THEN Writes(e) = 1 /\ e[2] \in PairsOf(which)
           ELSE /\ Writes(e) <= Cardinality(sharing)
                /\ Done => Writes(e) = Cardinality(sharing)

\* A complete run that wrote one label path twice.
C8_Witness ==
    /\ Done
    /\ \E i \in 1..Len(copies) : Writes(copies[i]) = 2

\* C9: after a complete run on a destination that started empty, every
\* scanned image is in exactly one of images/train and images/val, nothing
\* else is there, and every label in labels/train (labels/val) has the base
\* name of an image in images/train (images/val).
C9_Partition ==
    (Done /\ hist.dest0 = EmptyDest) =>
        /\ DestNames(ImagesTrain) \cup DestNames(ImagesVal) = SrcImages
        /\ DestNames(ImagesTrain) \cap DestNames(ImagesVal) = {}
        /\ \A l \in DestNames(LabelsTrain) :
              \E p \in DestNames(ImagesTrain) : with_suffix(p, ".txt") = l
        /\ \A l \in DestNames(LabelsVal) :
              \E p \in DestNames(ImagesVal) : with_suffix(p, ".txt") = l

\* A complete run over three images, with a label in labels/val.
C9_Witness ==
    /\ Done
    /\ hist.dest0 = EmptyDest
    /\ Cardinality(SrcImages) = 3
    /\ DestNames(LabelsVal) # {}
    /\ DestNames(ImagesTrain) # {}

\* C10 (as claimed): after complete runs only, on a destination that started
\* empty, no image name is in both images/train and images/val, and the two
\* directories hold as many images as the last run copied into them.
C10_AsClaimed ==
    (Done /\ hist.noKill /\ hist.dest0 = EmptyDest) =>
        /\ DestNames(ImagesTrain) \cap DestNames(ImagesVal) = {}
        /\ Cardinality(DestNames(ImagesTrain)) = copied_train
        /\ Cardinality(DestNames(ImagesVal)) = copied_val

====
